---------------------------- MODULE Spec2Model ----------------------------
(***************************************************************************)
(* Model of src/src/function_app.py: the MCP tool check_package_oversized. *)
(*                                                                         *)
(* The tool is one synchronous function.  The host hands it a context (a   *)
(* JSON text), the function parses it, reads four fields, coerces them     *)
(* with float(), applies the oversize rules, logs, and returns a JSON      *)
(* text.  The model keeps Python's values tagged with their type, so that  *)
(* dict.get, float() and the exception classes behave as in the source.    *)
(*                                                                         *)
(* Representation.                                                         *)
(*   - A str that matters character by character (a field value, the text  *)
(*     of a formatted float) is a sequence of one-character strings.       *)
(*     Fixed message texts are kept as whole chunks, and an f-string is    *)
(*     the concatenation of its chunks.                                    *)
(*   - A float is modelled by an integer: the model's numbers are the      *)
(*     floats with an integral value (70.0 is 70).  Fractions, NaN and the *)
(*     infinities are outside the inputs enumerated here.                  *)
(*   - A JSON text is modelled by whether it is well formed and, if so, by *)
(*     the document it denotes.                                            *)
(***************************************************************************)
EXTENDS Integers, Sequences, FiniteSets, TLC

VARIABLES
    context,    \* the argument of the current call (what the host passed)
    sink,       \* how the logging module behaves during the current call
    phase,      \* "idle" | "called" | "returned"
    response,   \* the JSON text returned by the call, or NoResponse
    escaped,    \* the exception that left the function, or NoException
    records     \* the log records emitted during the current call

vars == <<context, sink, phase, response, escaped, records>>

---------------------------------------------------------------------------
(* Program constants                                                       *)

WEIGHT_LIMIT == 5000
DIM_LIMIT == 60
TOTAL_LIMIT == 150

(* Bound of the enumerated inputs: how far on each side of a threshold the *)
(* numeric field values reach.                                             *)
Spread == 1

Keys == <<"length", "width", "height", "weight">>

---------------------------------------------------------------------------
(* Python values, tagged with their type                                   *)

PyNone == [t |-> "NoneType"]
PyBool(b) == [t |-> "bool", v |-> b]
\* big: the magnitude is beyond the range of a double (about 1.8e308)
PyInt(n, big) == [t |-> "int", v |-> n, big |-> big]
PyStr(s) == [t |-> "str", s |-> s]
PyList == [t |-> "list"]
PyDict(m) == [t |-> "dict", m |-> m]

EmptyMap == [k \in {} |-> PyNone]

Ok(v) == [ok |-> TRUE, v |-> v]
Raise(type, msg) == [ok |-> FALSE, exc |-> [type |-> type, msg |-> msg]]

---------------------------------------------------------------------------
(* JSON documents, as they stand in the request text                       *)

JNull == [t |-> "null"]
JTrue == [t |-> "true"]
JNumber(n) == [t |-> "number", v |-> n, big |-> FALSE]
JHugeNumber == [t |-> "number", v |-> 0, big |-> TRUE]
JString(s) == [t |-> "string", s |-> s]
JArray == [t |-> "array"]
JObject(m) == [t |-> "object", m |-> m]

\* A str holding JSON text: valid says whether it parses, doc what it denotes.
JsonText(doc) == [kind |-> "str", valid |-> TRUE, doc |-> doc]
BadText == [kind |-> "str", valid |-> FALSE, doc |-> JNull]
NotText == [kind |-> "NoneType", valid |-> FALSE, doc |-> JNull]

\* The decoder's table: object -> dict, array -> list, string -> str,
\* number (int) -> int, true -> True, null -> None.
RECURSIVE Decode(_)
Decode(j) ==
    CASE j.t = "null" -> PyNone
      [] j.t = "true" -> PyBool(TRUE)
      [] j.t = "number" -> PyInt(j.v, j.big)
      [] j.t = "string" -> PyStr(j.s)
      [] j.t = "array" -> PyList
      [] j.t = "object" -> PyDict([k \in DOMAIN j.m |-> Decode(j.m[k])])

\* json.loads(context), line 59
json_loads(ctx) ==
    IF ctx.kind # "str"
    THEN Raise("TypeError",
               <<"the JSON object must be str, bytes or bytearray, not ", ctx.kind>>)
    ELSE IF ~ctx.valid
    THEN Raise("JSONDecodeError", <<"Expecting value">>)
    ELSE Ok(Decode(ctx.doc))

\* json.dumps(obj), lines 74, 119, 122, 128: the text denoting obj
json_dumps(obj) == [kind |-> "str", valid |-> TRUE, doc |-> obj]


---------------------------------------------------------------------------
(* dict.get and float()                                                    *)

\* obj.get(key, default), lines 60 and 62-65.  Only a dict has the method;
\* a key that is present yields its value, whatever it is (None included).
dict_get_ignores_default(obj, key, default) ==
    IF obj.t # "dict"
    THEN Raise("AttributeError", <<"'", obj.t, "' object has no attribute 'get'">>)
    ELSE IF key \in DOMAIN obj.m
    THEN Ok(obj.m[key])
    ELSE Ok(PyNone)

dict_get(obj, key, default) ==
    IF obj.t # "dict"
    THEN Raise("AttributeError", <<"'", obj.t, "' object has no attribute 'get'">>)
    ELSE IF key \in DOMAIN obj.m
    THEN Ok(obj.m[key])
    ELSE Ok(default)

Digits == <<"0", "1", "2", "3", "4", "5", "6", "7", "8", "9">>

IsDigit(c) == \E i \in 1..Len(Digits) : Digits[i] = c

DigitValue(c) == (CHOOSE i \in 1..Len(Digits) : Digits[i] = c) - 1

\* float() strips the white space around the text before it reads it.
RECURSIVE StripLeft(_)
StripLeft(s) ==
    IF s # <<>> /\ Head(s) = " " THEN StripLeft(Tail(s)) ELSE s

RECURSIVE StripRight(_)
StripRight(s) ==
    IF s # <<>> /\ s[Len(s)] = " " THEN StripRight(SubSeq(s, 1, Len(s) - 1)) ELSE s

Strip(s) == StripRight(StripLeft(s))

RECURSIVE DecimalValue(_)
DecimalValue(s) ==
    IF s = <<>> THEN 0
    ELSE 10 * DecimalValue(SubSeq(s, 1, Len(s) - 1)) + DigitValue(s[Len(s)])

\* The number a stripped text denotes: an optional sign and at least one
\* digit, nothing else.  (The texts enumerated here are made of spaces, a
\* sign, digits and letters.)
ReadNumber(t) ==
    IF t # <<>> /\ Head(t) \in {"+", "-"}
    THEN IF Tail(t) # <<>> /\ \A i \in 1..Len(Tail(t)) : IsDigit(Tail(t)[i])
         THEN Ok(IF Head(t) = "-" THEN 0 - DecimalValue(Tail(t))
                 ELSE DecimalValue(Tail(t)))
         ELSE Raise("ValueError", <<"could not convert string to float">>)
    ELSE IF t # <<>> /\ \A i \in 1..Len(t) : IsDigit(t[i])
         THEN Ok(DecimalValue(t))
         ELSE Raise("ValueError", <<"could not convert string to float">>)

\* float(str)
float_of_str(s) == ReadNumber(Strip(s))

\* float(x), lines 69-72
float(x) ==
    CASE x.t = "int" ->
            IF x.big
            THEN Raise("OverflowError", <<"int too large to convert to float">>)
            ELSE Ok(x.v)
      [] x.t = "bool" -> Ok(IF x.v THEN 1 ELSE 0)
      [] x.t = "str" -> float_of_str(x.s)
      [] OTHER ->
            Raise("TypeError",
                  <<"float() argument must be a string or a real number, not '",
                    x.t, "'">>)

\* str(x) of a float with an integral value, as the f-strings of lines 86-105
\* format it: 70.0, -1.0
RECURSIVE NatStr(_)
NatStr(n) ==
    IF n < 10 THEN <<Digits[n + 1]>>
    ELSE NatStr(n \div 10) \o <<Digits[(n % 10) + 1]>>

FloatStr(x) ==
    (IF x < 0 THEN <<"-">> \o NatStr(0 - x) ELSE NatStr(x)) \o <<".", "0">>

---------------------------------------------------------------------------
(* The oversize rules, lines 79-105                                        *)

\* line 84
WeightTriggers(weight) == weight >= WEIGHT_LIMIT

\* lines 89, 93, 97
DimTriggers(dim) == dim > DIM_LIMIT

TotalDimensions_drops_height(length, width, height) == length + width

\* line 102
TotalDimensions(length, width, height) == length + width + height

\* line 103
TotalTriggers(total) == total > TOTAL_LIMIT

WeightMsg(weight) == <<"Weight (">> \o FloatStr(weight) \o <<") is >= 5000 grams">>
LengthMsg(length) == <<"Length (">> \o FloatStr(length) \o <<") is > 60 inches">>
WidthMsg(width) == <<"Width (">> \o FloatStr(width) \o <<") is > 60 inches">>
HeightMsg(height) == <<"Height (">> \o FloatStr(height) \o <<") is > 60 inches">>
TotalMsg(total) == <<"Total dimensions (">> \o FloatStr(total) \o <<") is > 150 inches">>

MeetsMsg == <<"Package meets all size and weight requirements">>

\* One if statement of lines 84-105: sets the flag and appends the reason.
Check(st, triggered, msg) ==
    IF triggered
    THEN [is_oversized |-> TRUE, reasons |-> Append(st.reasons, msg)]
    ELSE st

\* lines 80-105 in order: weight, length, width, height, total
Rules(length, width, height, weight, total) ==
    Check(Check(Check(Check(Check([is_oversized |-> FALSE, reasons |-> <<>>],
                                  WeightTriggers(weight), WeightMsg(weight)),
                            DimTriggers(length), LengthMsg(length)),
                      DimTriggers(width), WidthMsg(width)),
                DimTriggers(height), HeightMsg(height)),
          TotalTriggers(total), TotalMsg(total))

Reasoning_no_default(st) == st.reasons

\* line 115
Reasoning(st) == IF st.is_oversized THEN st.reasons ELSE <<MeetsMsg>>

\* lines 108-116
ResultDict(length, width, height, weight, total, st) ==
    [oversized |-> st.is_oversized,
     length |-> length,
     width |-> width,
     height |-> height,
     weight |-> weight,
     total_dimensions |-> total,
     reasoning |-> Reasoning(st)]

\* lines 80-116 with the total computed at line 102
Evaluate(length, width, height, weight, total) ==
    ResultDict(length, width, height, weight, total,
               Rules(length, width, height, weight, total))

\* lines 79-116
Result(length, width, height, weight) ==
    Evaluate(length, width, height, weight, TotalDimensions(length, width, height))

---------------------------------------------------------------------------
(* The error payloads, lines 74-77, 122-125, 128-131                       *)

NonNumericMsg == <<"Invalid input: All dimensions and weight must be numeric values.">>
MalformedMsg == <<"Invalid JSON format in context">>
UnexpectedMsg(exc) == <<"Error processing package check: ">> \o exc.msg

ErrorPayload(msg) == [oversized |-> FALSE, error |-> msg]

---------------------------------------------------------------------------
(* Logging, lines 118 and 127                                              *)

\* The logging module during one call: each of the two logging calls of the
\* function either returns (the record is emitted) or raises, which a handler
\* or filter that raises makes it do.
Sinks == [info : {"ok", "raises"}, error : {"ok", "raises"}]
ReliableSink == [info |-> "ok", error |-> "ok"]

SinkFailure == [type |-> "RuntimeError", msg |-> <<"log sink failed">>]

\* line 118
InfoRecord(result) ==
    [level |-> "INFO", msg |-> <<"Package check result: ">>, arg |-> result]

\* line 127
ErrorRecord(exc) ==
    [level |-> "ERROR", msg |-> <<"Error checking package: ">> \o exc.msg]

---------------------------------------------------------------------------
(* check_package_oversized, lines 42-131                                   *)

NoResponse == [kind |-> "none", valid |-> FALSE, doc |-> JNull]
NoException == [type |-> "none", msg |-> <<>>]

\* How a block of code ends: it returns a value or it raises.
Returned(value, recs) ==
    [kind |-> "return", value |-> value, exc |-> NoException, records |-> recs]
Raised(exc, recs) ==
    [kind |-> "raise", value |-> NoResponse, exc |-> exc, records |-> recs]

\* The first of four outcomes that raised, or the four values.
FirstFailure(l, w, h, g) ==
    IF ~l.ok THEN l
    ELSE IF ~w.ok THEN w
    ELSE IF ~h.ok THEN h
    ELSE IF ~g.ok THEN g
    ELSE Ok([length |-> l.v, width |-> w.v, height |-> h.v, weight |-> g.v])

\* lines 69-72: the four float() calls in order; the first to raise ends them
Coerce(length, width, height, weight) ==
    FirstFailure(float(length), float(width), float(height), float(weight))

\* line 73: except (ValueError, TypeError)
CoercionCaught(exc) == exc.type \in {"ValueError", "TypeError"}

IsJSONDecodeError_or_shape(exc) ==
    exc.type \in {"JSONDecodeError", "AttributeError", "TypeError"}

\* line 121: except json.JSONDecodeError
IsJSONDecodeError(exc) == exc.type = "JSONDecodeError"

LogInfo_silent(s, result) == Returned(json_dumps(result), <<>>)

\* lines 118-119: log the result, then return it
LogInfo(s, result) ==
    IF s.info = "ok"
    THEN Returned(json_dumps(result), <<InfoRecord(result)>>)
    ELSE Raised(SinkFailure, <<>>)

\* lines 73-119, c being the outcome of lines 69-72
AfterCoerce(c, s) ==
    IF c.ok THEN LogInfo(s, Result(c.v.length, c.v.width, c.v.height, c.v.weight))
    ELSE IF CoercionCaught(c.exc)
    THEN Returned(json_dumps(ErrorPayload(NonNumericMsg)), <<>>)
    ELSE Raised(c.exc, <<>>)

\* lines 68-119, the arguments being the outcomes of the four args.get calls
\* (which raise alike, when args is no dict)
AfterFields(length, width, height, weight, s) ==
    IF ~length.ok THEN Raised(length.exc, <<>>)
    ELSE AfterCoerce(Coerce(length.v, width.v, height.v, weight.v), s)

\* lines 62-119, args being the outcome of line 60
AfterArguments(args, s) ==
    IF ~args.ok THEN Raised(args.exc, <<>>)
    ELSE AfterFields(dict_get(args.v, "length", PyInt(0, FALSE)),
                     dict_get(args.v, "width", PyInt(0, FALSE)),
                     dict_get(args.v, "height", PyInt(0, FALSE)),
                     dict_get(args.v, "weight", PyInt(0, FALSE)), s)

\* lines 60-119, content being the outcome of line 59
AfterLoads(content, s) ==
    IF ~content.ok THEN Raised(content.exc, <<>>)
    ELSE AfterArguments(dict_get(content.v, "arguments", PyDict(EmptyMap)), s)

\* lines 58-119: the body of the outer try
TryBody(ctx, s) == AfterLoads(json_loads(ctx), s)

\* lines 121-131: the handlers of the outer try, body being how its body ended
Handlers(body, s) ==
    IF body.kind = "return" THEN body
    ELSE IF IsJSONDecodeError(body.exc)
    THEN Returned(json_dumps(ErrorPayload(MalformedMsg)), body.records)
    ELSE IF s.error = "ok"
    THEN Returned(json_dumps(ErrorPayload(UnexpectedMsg(body.exc))),
                  Append(body.records, ErrorRecord(body.exc)))
    ELSE Raised(SinkFailure, body.records)

\* lines 57-131
check_package_oversized(ctx, s) == Handlers(TryBody(ctx, s), s)

---------------------------------------------------------------------------
(* The requests the host sends                                             *)

Absent == [t |-> "absent"]

Heavy == <<"h", "e", "a", "v", "y">>

DimNumbers == UNION {{0 - d, (TOTAL_LIMIT \div 3) + d, DIM_LIMIT + d} : d \in 0..Spread}
WeightNumbers == UNION {{0 - d, WEIGHT_LIMIT - d, WEIGHT_LIMIT + d} : d \in 0..Spread}

NumericText(key) ==
    CASE key = "length" -> <<" ", "6", "1", " ">>
      [] key = "width" -> <<"-", "6", "1">>
      [] key = "height" -> <<"+", "6", "1">>
      [] key = "weight" -> <<"5", "0", "0", "0">>

\* What a request may hold under one key, Absent standing for no such key.
FieldChoices(key) ==
    {JNumber(n) : n \in (IF key = "weight" THEN WeightNumbers ELSE DimNumbers)}
    \cup {JString(NumericText(key)), JString(Heavy), JNull, JTrue, JArray,
          JHugeNumber, Absent}

Arguments(l, w, h, g) ==
    LET c == [k \in {"length", "width", "height", "weight"} |->
                CASE k = "length" -> l [] k = "width" -> w
                  [] k = "height" -> h [] k = "weight" -> g]
    IN  JObject([k \in {x \in DOMAIN c : c[x] # Absent} |-> c[k]])

\* {"arguments": {...}} holding the given field choices
FieldRequest(l, w, h, g) == JsonText(JObject([arguments |-> Arguments(l, w, h, g)]))

\* Requests that hold no arguments record: text that is not JSON, an argument
\* that is not text, a top level that is no object, an object without
\* "arguments", and "arguments" that is no object.
OtherRequests ==
    {BadText, NotText, JsonText(JObject(EmptyMap))}
    \cup {JsonText(j) : j \in {JNull, JTrue, JArray, JNumber(5), JString(Heavy)}}
    \cup {JsonText(JObject([arguments |-> j])) :
            j \in {JNull, JTrue, JArray, JNumber(5), JString(Heavy)}}

---------------------------------------------------------------------------
(* The state machine: the host invokes the tool, the tool runs, the host   *)
(* takes the outcome.  Calls are independent: nothing survives a call.     *)

Init ==
    /\ context = NotText
    /\ sink = ReliableSink
    /\ phase = "idle"
    /\ response = NoResponse
    /\ escaped = NoException
    /\ records = <<>>

\* The host passes ctx; the logging module will behave as s.
Call(ctx, s) ==
    /\ context' = ctx
    /\ sink' = s
    /\ phase' = "called"
    /\ UNCHANGED <<response, escaped, records>>

\* Some request with an arguments record, any field choice under each key.
CallWithFields(s) ==
    \E l \in FieldChoices("length"), w \in FieldChoices("width"),
       h \in FieldChoices("height"), g \in FieldChoices("weight") :
        Call(FieldRequest(l, w, h, g), s)

CallWithout(s) == \E ctx \in OtherRequests : Call(ctx, s)

Invoke ==
    /\ phase = "idle"
    /\ \E s \in Sinks : CallWithFields(s) \/ CallWithout(s)

Execute ==
    /\ phase = "called"
    /\ response' = check_package_oversized(context, sink).value
    /\ escaped' = check_package_oversized(context, sink).exc
    /\ records' = check_package_oversized(context, sink).records
    /\ phase' = "returned"
    /\ UNCHANGED <<context, sink>>

Complete ==
    /\ phase = "returned"
    /\ context' = NotText
    /\ sink' = ReliableSink
    /\ phase' = "idle"
    /\ response' = NoResponse
    /\ escaped' = NoException
    /\ records' = <<>>

Next == Invoke \/ Execute \/ Complete

Spec == Init /\ [][Next]_vars

---------------------------------------------------------------------------
(* Reading a state: the request as the host wrote it, the outcome as the   *)
(* host sees it.                                                           *)

Done == phase = "returned"

\* The call returned a payload (no exception left the function).
Replied == Done /\ response # NoResponse

SuccessKeys ==
    {"oversized", "length", "width", "height", "weight", "total_dimensions", "reasoning"}
ErrorKeys == {"oversized", "error"}

IsSuccess == Replied /\ DOMAIN response.doc = SuccessKeys
IsError == Replied /\ DOMAIN response.doc = ErrorKeys

ErrorIs(msg) == IsError /\ response.doc.oversized = FALSE /\ response.doc.error = msg

\* The request is JSON text whose top level is a record.
IsRecordText == context.kind = "str" /\ context.valid /\ context.doc.t = "object"

\* ... and its "arguments", when there, is a map.
HasArgumentsMap ==
    /\ IsRecordText
    /\ "arguments" \in DOMAIN context.doc.m => context.doc.m.arguments.t = "object"

ArgumentsMap ==
    IF "arguments" \in DOMAIN context.doc.m THEN context.doc.m.arguments.m ELSE EmptyMap

Field(key) == IF key \in DOMAIN ArgumentsMap THEN ArgumentsMap[key] ELSE Absent

KeySet == {Keys[i] : i \in 1..Len(Keys)}

\* What float() makes of the field under key, an absent key read as 0.
Coerced(key) ==
    float(IF Field(key) = Absent THEN PyInt(0, FALSE) ELSE Decode(Field(key)))

AllCoerce == HasArgumentsMap /\ \A k \in KeySet : Coerced(k).ok

\* A value float() rejects as not numeric: null, an array, a text that is no number.
NotNumeric(j) ==
    \/ j \in {JNull, JArray}
    \/ j.t = "string" /\ ~float_of_str(j.s).ok

---------------------------------------------------------------------------
(* The claims                                                              *)

\* Some rule of the claim holds of the coerced fields.
AnyRuleHolds ==
    \/ Coerced("weight").v >= 5000
    \/ Coerced("length").v > 60
    \/ Coerced("width").v > 60
    \/ Coerced("height").v > 60
    \/ Coerced("length").v + Coerced("width").v + Coerced("height").v > 150

\* C1: whenever the four fields all coerce to numbers, the returned
\* `oversized` is true if and only if weight >= 5000, or a dimension > 60,
\* or the sum of the dimensions > 150.
C1_OversizedIffAnyRule ==
    (Replied /\ AllCoerce) => (response.doc.oversized = AnyRuleHolds)

\* The messages of the rules that hold of the coerced fields, in rule order.
TriggeredMessages ==
    (IF Coerced("weight").v >= 5000 THEN <<WeightMsg(Coerced("weight").v)>> ELSE <<>>)
    \o (IF Coerced("length").v > 60 THEN <<LengthMsg(Coerced("length").v)>> ELSE <<>>)
    \o (IF Coerced("width").v > 60 THEN <<WidthMsg(Coerced("width").v)>> ELSE <<>>)
    \o (IF Coerced("height").v > 60 THEN <<HeightMsg(Coerced("height").v)>> ELSE <<>>)
    \o (IF Coerced("length").v + Coerced("width").v + Coerced("height").v > 150
        THEN <<TotalMsg(Coerced("length").v + Coerced("width").v + Coerced("height").v)>>
        ELSE <<>>)

\* C2: in every success payload `reasoning` is exactly the messages of the
\* rules that triggered, in the fixed order weight, length, width, height,
\* total, one per rule; when none triggered it is the single "meets all
\* requirements" message; so it is never empty.
C2_ReasoningListsTriggeredRules ==
    IsSuccess =>
        /\ AllCoerce
        /\ response.doc.reasoning =
              (IF TriggeredMessages = <<>> THEN <<MeetsMsg>> ELSE TriggeredMessages)
        /\ Len(response.doc.reasoning) >= 1

\* All five rules triggered at once.
C2_Witness == IsSuccess /\ Len(response.doc.reasoning) = 5

\* C3: if any one field holds a value that is not numeric, the call returns
\* oversized=false with the "Invalid input" error, whatever the other three
\* fields are, and no dimension, total or reasoning field.
C3_NonNumericFieldAlwaysRejected ==
    (Done /\ HasArgumentsMap /\ \E k \in KeySet : NotNumeric(Field(k)))
        => ErrorIs(NonNumericMsg)

\* The request cannot be read as a record with an arguments map.
Malformed == context.kind = "str" /\ ~HasArgumentsMap

NotJsonText == context.kind = "str" /\ ~context.valid

\* The value whose lack of a get method ends the call: the top level that is
\* no record, or the "arguments" that is no map.
Offender ==
    IF context.doc.t # "object" THEN context.doc ELSE context.doc.m.arguments

\* C4 as stated: every malformed request (text that is not JSON, a top level
\* that is no record, "arguments" that is no map) gets the "Invalid JSON
\* format in context" error.
C4_MalformedAlwaysInvalidJson == (Done /\ Malformed) => ErrorIs(MalformedMsg)

\* C4 as amended: the "Invalid JSON format in context" error is returned
\* exactly for text that is not JSON; JSON whose top level is no record, or
\* whose "arguments" is no map, is an unexpected failure, and the payload
\* returned for it is "Error processing package check: '<type>' object has
\* no attribute 'get'".
C4_OnlyBadTextIsInvalidJson ==
    Done =>
        /\ NotJsonText <=> ErrorIs(MalformedMsg)
        /\ (Replied /\ Malformed /\ ~NotJsonText) =>
              ErrorIs(<<"Error processing package check: ", "'",
                        Decode(Offender).t, "' object has no attribute 'get'">>)

\* A JSON array at the top level, answered as an unexpected failure.
C4_Witness ==
    /\ Done
    /\ context = JsonText(JArray)
    /\ ErrorIs(<<"Error processing package check: ", "'", "list",
                 "' object has no attribute 'get'">>)

\* C5: every call ends by returning exactly one payload, a success result or
\* an error result and never a mix, and no exception leaves the function.
C5_AlwaysExactlyOnePayload ==
    Done =>
        /\ escaped = NoException
        /\ IsSuccess \/ (IsError /\ response.doc.oversized = FALSE)

\* The request with every absent key (and an absent "arguments") written
\* out with the value 0.
Filled ==
    JsonText(JObject([arguments |->
        JObject([k \in KeySet |-> IF Field(k) = Absent THEN JNumber(0) ELSE Field(k)])]))

\* C6: a call with keys left out ends exactly as the call in which each of
\* them is present with the value 0.
C6_AbsentKeyIsZero ==
    (Done /\ HasArgumentsMap) =>
        /\ response = check_package_oversized(Filled, sink).value
        /\ escaped = check_package_oversized(Filled, sink).exc
        /\ records = check_package_oversized(Filled, sink).records

\* No weight key, and the call succeeded with weight 0.
C6_Witness ==
    /\ IsSuccess
    /\ Field("weight") = Absent
    /\ Field("length") # Absent
    /\ response.doc.weight = 0

\* C7: in every success payload total_dimensions is length + width + height
\* of the echoed values, and the echoed values are the coerced inputs.
C7_TotalIsSumOfEchoedDims ==
    IsSuccess =>
        /\ response.doc.total_dimensions =
              response.doc.length + response.doc.width + response.doc.height
        /\ AllCoerce
        /\ \A k \in KeySet : response.doc[k] = Coerced(k).v

\* A defaulted dimension beside two given ones, one of them as text.
C7_Witness ==
    /\ IsSuccess
    /\ Field("height") = Absent
    /\ Field("length").t = "string"
    /\ response.doc.width = 60
    /\ response.doc.total_dimensions = 121

\* C8 as stated: every call has emitted a record when it returns, at
\* warning or error severity on a coercion failure and on an unexpected
\* failure.
C8_EveryCallEmitsARecord ==
    Replied =>
        /\ records # <<>>
        /\ IsError => \E i \in 1..Len(records) : records[i].level \in {"WARNING", "ERROR"}

\* C8 as amended: a call that returns a success payload has emitted one
\* info record of that result; a call that returns the "Error processing
\* package check" payload has emitted one error record with the same
\* details; a call that returns the coercion error or the invalid-JSON
\* error has emitted nothing.
C8_RecordsFollowOutcome ==
    Replied =>
        /\ IsSuccess => records = <<InfoRecord(response.doc)>>
        /\ (ErrorIs(NonNumericMsg) \/ ErrorIs(MalformedMsg)) => records = <<>>
        /\ (IsError /\ response.doc.error \notin {NonNumericMsg, MalformedMsg}) =>
              /\ Len(records) = 1
              /\ records[1].level = "ERROR"
              /\ Head(records[1].msg) = "Error checking package: "
              /\ Head(response.doc.error) = "Error processing package check: "
              /\ Tail(records[1].msg) = Tail(response.doc.error)

\* A coercion failure answered without any record.
C8_Witness == ErrorIs(NonNumericMsg) /\ records = <<>>

\* C9: the payload returned is the one the call returns when every emission
\* succeeds, whether or not the emissions of this call succeeded.
C9_SinkDoesNotChangePayload ==
    Replied => response = check_package_oversized(context, ReliableSink).value

\* C10: a key present with the value null is not defaulted to 0: the call
\* returns the "Invalid input" error.
C10_NullIsNotDefaulted ==
    (Done /\ HasArgumentsMap /\ \E k \in KeySet : Field(k) = JNull)
        => ErrorIs(NonNumericMsg)

=============================================================================
